---- MODULE Spec2Model ----
(***************************************************************************)
(* TransactAI fraud decision backend (src/main/backend/backend-server.py)  *)
(* with its collaborators: the fraud_rules / transactions tables, the      *)
(* scoring service (src/main/backend/mlserver.py) and the reporting        *)
(* service (src/main/backend/reportserver.py).                             *)
(*                                                                         *)
(* Every HTTP request handled by the backend is a process r \in Reqs that  *)
(* walks through the statements of detect() or batch_detect().  Calls to   *)
(* a collaborator are the points where the environment chooses an answer.  *)
(***************************************************************************)
EXTENDS Integers, Sequences, FiniteSets, Bags, TLC

\* ------------------------------------------------------------------ bounds
\* concurrent requests
NumReqs == 1
\* transactions submitted in one run, over all requests
MaxTransactions == 2
\* rows of the fraud_rules table when one rule evaluation is followed
MaxRules == 2
\* background process_transaction tasks of the Fraud Analysis API
NumTasks == 2
\* posts the reporting service handles
NumReports == 2

Reqs == 1..NumReqs

\* ------------------------------------------------------------ Python values
\* Python None for string-valued columns / fields
None == "None"
\* Python None for number-valued columns / fields (all real numbers are >= 0)
NoneNum == -1

\* truth value of a string-or-None   (`if blocked_ip and ...`)
TruthyStr(v) == v # None /\ v # ""
\* truth value of an int-or-None     (`... or result["is_fraud_predicted"]`)
TruthyNum(v) == v # NoneNum /\ v # 0

\* ", ".join(strs)
RECURSIVE Join(_)
Join(strs) ==
    IF Len(strs) = 0 THEN ""
    ELSE IF Len(strs) = 1 THEN strs[1]
    ELSE strs[1] \o ", " \o Join(Tail(strs))

\* ------------------------------------------------------------- Transaction
Transaction(id, amount, gateway, email, ip, browser) ==
    [ transaction_id           |-> id,
      transaction_date         |-> "2025-03-01",
      transaction_amount       |-> amount,
      transaction_channel      |-> "Web",
      transaction_payment_mode |-> "Card",
      payment_gateway_bank     |-> gateway,
      payer_email              |-> email,
      payer_mobile             |-> "900",
      payer_card_brand         |-> "Visa",
      payer_ip                 |-> ip,
      payer_browser            |-> browser,
      payee_id                 |-> "p1" ]

\* the transactions callers submit: one that the rules below flag, and one
\* with every optional field absent and the amount on the threshold
Transactions ==
    { Transaction("t1", 6, "gw1", "a@b.com", "1.2.3.4", "Chrome"),
      Transaction("t2", 5, None, None, None, None) }

\* ------------------------------------------------------------- fraud_rules
\* one row of the fraud_rules table, as add_rule() inserts it: rule_type and
\* the one payload column of that type, every other payload column NULL
Rule(id, rule_type, value, active) ==
    [ id                      |-> id,
      rule_type               |-> rule_type,
      threshold               |-> IF rule_type = "Threshold Value" THEN value ELSE NoneNum,
      blocked_ip              |-> IF rule_type = "Blocked IP" THEN value ELSE None,
      blocked_payment_gateway |-> IF rule_type = "Blocked Payment Gateway" THEN value ELSE None,
      blocked_payer_browser   |-> IF rule_type = "Blocked Browser" THEN value ELSE None,
      blocked_email           |-> IF rule_type = "Blocked Email" THEN value ELSE None,
      is_active               |-> active ]

\* contents of the fraud_rules table the backend may find
RuleTables ==
    { << >>,
      << Rule(1, "Threshold Value", 5, 1),
         Rule(2, "Threshold Value", 0, 0),
         Rule(3, "Blocked IP", "1.2.3.4", 1) >> }

IsActive(rule) == rule.is_active = 1

\* fetch_rules(): SELECT * FROM fraud_rules WHERE is_active = 1
fetch_rules(table) == SelectSeq(table, IsActive)

\* check_transaction, lines 68-69: the accumulator before the loop
no_fraud == [ is_fraud |-> FALSE, fraud_reasons |-> << >> ]

\* an `if` block that sets is_fraud and appends nothing
flag_forgetting_reason(acc, triggered, reason) ==
    IF triggered
    THEN [ is_fraud |-> TRUE, fraud_reasons |-> acc.fraud_reasons ]
    ELSE acc

\* an `if` block that appends a reason only when the list does not hold it yet
flag_deduplicating(acc, triggered, reason) ==
    IF triggered
    THEN [ is_fraud |-> TRUE,
           fraud_reasons |-> IF \E k \in DOMAIN acc.fraud_reasons :
                                   acc.fraud_reasons[k] = reason
                             THEN acc.fraud_reasons
                             ELSE Append(acc.fraud_reasons, reason) ]
    ELSE acc

\* one `if` block of the loop body: is_fraud = True; fraud_reasons.append(reason)
flag(acc, triggered, reason) ==
    IF triggered
    THEN [ is_fraud |-> TRUE, fraud_reasons |-> Append(acc.fraud_reasons, reason) ]
    ELSE acc

\* a threshold test with >= in place of >
check_threshold_inclusive(acc, transaction, rule) ==
    flag(acc,
         rule.rule_type = "Threshold Value" /\ rule.threshold # NoneNum
            /\ transaction.transaction_amount >= rule.threshold,
         "High transaction amount (> " \o ToString(rule.threshold) \o ")")

\* `if rule_type == "Threshold Value" and threshold is not None:` and the
\* nested amount test
check_threshold(acc, transaction, rule) ==
    flag(acc,
         rule.rule_type = "Threshold Value" /\ rule.threshold # NoneNum
            /\ transaction.transaction_amount > rule.threshold,
         "High transaction amount (> " \o ToString(rule.threshold) \o ")")

\* a blocked-IP test without `blocked_ip and`
check_blocked_ip_unguarded(acc, transaction, rule) ==
    flag(acc,
         transaction.payer_ip = rule.blocked_ip,
         "Blocked IP: " \o rule.blocked_ip)

\* `if blocked_ip and transaction.get("payer_ip") == blocked_ip:`, and the
\* three tests of the same form after it
check_blocked_ip(acc, transaction, rule) ==
    flag(acc,
         TruthyStr(rule.blocked_ip) /\ transaction.payer_ip = rule.blocked_ip,
         "Blocked IP: " \o rule.blocked_ip)

check_blocked_browser(acc, transaction, rule) ==
    flag(acc,
         TruthyStr(rule.blocked_payer_browser)
            /\ transaction.payer_browser = rule.blocked_payer_browser,
         "Blocked Browser: " \o rule.blocked_payer_browser)

check_blocked_gateway(acc, transaction, rule) ==
    flag(acc,
         TruthyStr(rule.blocked_payment_gateway)
            /\ transaction.payment_gateway_bank = rule.blocked_payment_gateway,
         "Blocked Payment Gateway: " \o rule.blocked_payment_gateway)

check_blocked_email(acc, transaction, rule) ==
    flag(acc,
         TruthyStr(rule.blocked_email) /\ transaction.payer_email = rule.blocked_email,
         "Blocked Email: " \o rule.blocked_email)

\* a loop body that is skipped once is_fraud is set
check_rule_first_match_only(acc, transaction, rule) ==
    IF acc.is_fraud THEN acc
    ELSE check_blocked_email(
           check_blocked_gateway(
             check_blocked_browser(
               check_blocked_ip(
                 check_threshold(acc, transaction, rule),
                 transaction, rule),
               transaction, rule),
             transaction, rule),
           transaction, rule)

\* the body of `for rule in rules:` for one rule: five independent `if`s
check_rule(acc, transaction, rule) ==
    check_blocked_email(
      check_blocked_gateway(
        check_blocked_browser(
          check_blocked_ip(
            check_threshold(acc, transaction, rule),
            transaction, rule),
          transaction, rule),
        transaction, rule),
      transaction, rule)

\* `for rule in rules:` from the accumulator acc
RECURSIVE check_rules(_, _, _)
check_rules(acc, transaction, rules) ==
    IF rules = << >> THEN acc
    ELSE check_rules(check_rule(acc, transaction, Head(rules)), transaction, Tail(rules))

\* check_transaction(transaction) once fetch_rules() has returned `rules`
check_transaction(transaction, rules) ==
    LET acc == check_rules(no_fraud, transaction, rules)
    IN  [ transaction_id |-> transaction.transaction_id,
          is_fraud_rule  |-> acc.is_fraud,
          fraud_source   |-> "rule",
          fraud_reasons  |-> acc.fraud_reasons ]

\* ------------------------------------------------------- scoring service
\* a JSON value found (or not) under the key "prediction" of a response body
JsonAbsent == [ type |-> "absent", items |-> << >> ]
JsonNumber == [ type |-> "number", items |-> << >> ]
JsonList(items) == [ type |-> "list", items |-> items ]

\* a JSON string, as line 166 puts one under "fraud_reasons"
JsonString(str) == [ type |-> "string", items |-> << str >> ]

\* what requests.post(ML_SERVER_URL, ...) comes back with: an exception
\* (error), or a response with a status and a body
MLResponse(error, status, is_json, prediction, is_fraud) ==
    [ error |-> error, status |-> status, is_json |-> is_json,
      prediction |-> prediction, is_fraud |-> is_fraud ]

\* mlserver.py ml_predict: `result = int(prediction.numpy()[0]) ^ 1`, returned
\* under the key "is_fraud"; normal is the autoencoder's bit (1 = loss below
\* the threshold)
ml_predict(normal) ==
    MLResponse("none", 200, TRUE, JsonAbsent, (normal + 1) % 2)

\* the answers the backend can get to its scoring call
MLResponses ==
    { MLResponse("ConnectionError", 0, FALSE, JsonAbsent, NoneNum),
      MLResponse("Timeout", 0, FALSE, JsonAbsent, NoneNum),
      MLResponse("none", 500, FALSE, JsonAbsent, NoneNum),
      MLResponse("none", 200, FALSE, JsonAbsent, NoneNum),
      ml_predict(0),
      ml_predict(1),
      MLResponse("none", 200, TRUE, JsonNumber, NoneNum),
      MLResponse("none", 200, TRUE, JsonList(<< >>), NoneNum),
      MLResponse("none", 200, TRUE, JsonList(<< 0 >>), NoneNum),
      MLResponse("none", 200, TRUE, JsonList(<< 1 >>), NoneNum) }

\* a get_ml_prediction whose `except` returns False instead of None
get_ml_prediction_false_on_error(response) ==
    IF response.error # "none" \/ response.status >= 400 \/ ~response.is_json
       \/ response.prediction.type # "list" \/ response.prediction.items = << >>
    THEN 0
    ELSE response.prediction.items[1]

\* a get_ml_prediction that inverts the bit it receives
get_ml_prediction_inverting(response) ==
    IF response.error # "none" \/ response.status >= 400 \/ ~response.is_json
       \/ response.prediction.type # "list" \/ response.prediction.items = << >>
    THEN NoneNum
    ELSE 1 - response.prediction.items[1]

\* get_ml_prediction(transaction), given the answer to its requests.post
get_ml_prediction(response) ==
    IF response.error # "none" THEN NoneNum                    \* post() raised
    ELSE IF response.status >= 400 THEN NoneNum                \* raise_for_status()
    ELSE IF ~response.is_json THEN NoneNum                     \* response.json() raised
    ELSE LET prediction == IF response.prediction.type = "absent"
                           THEN JsonList(<< >>)                \* .get("prediction", [])
                           ELSE response.prediction
         IN  IF prediction.type # "list" THEN NoneNum          \* TypeError
             ELSE IF Len(prediction.items) = 0 THEN NoneNum    \* IndexError
             ELSE prediction.items[1]

\* ----------------------------------------------------- reporting service
\* what requests.post(REPORT_API_URL, ...) comes back with: reportserver.py
\* answers acknowledged or not acknowledged, the framework may answer with an
\* error status, or the post raises
ReportOutcomes == { "acknowledged", "not_acknowledged", "error_status", "unreachable" }

\* no call made yet
no_ml_response == MLResponse("no call", 0, FALSE, JsonAbsent, NoneNum)
no_call == "no call"

\* ---------------------------------------------------------------- state
VARIABLES
    fraud_rules,          \* the fraud_rules table
    transactions_table,   \* the transactions table (the ledger): a bag of rows
    fraud_reports,        \* the report posts made by send_fraud_report: a bag
    ml_calls,             \* the scoring posts made by get_ml_prediction: who for
    req,                  \* per request: position in detect / batch_detect and locals
    evaluation,           \* per call of check_transaction followed statement by
                          \* statement: its position and locals
    history_file,         \* api.py: HISTORY_FILE, whether it exists and its rows
    latest_file,          \* api.py: LATEST_FILE, its rows
    new_data_available,   \* api.py: the module's flag
    task,                 \* api.py: per background task, position and locals
    dashboard,            \* dashboard.py: position in check_for_new_data, and
                          \* st.session_state.data
    fraud_reporting,      \* reportserver.py: the fraud_reporting table, a bag
    report_call           \* reportserver.py: per post, position in report_fraud

\* the state of the Fraud Analysis API and of its dashboard
api_vars == << history_file, latest_file, new_data_available, task, dashboard >>

\* the state of the reporting service
report_vars == << fraud_reporting, report_call >>

vars == << fraud_rules, transactions_table, fraud_reports, ml_calls, req, evaluation,
           api_vars, report_vars >>

no_result ==
    [ transaction_id |-> None, is_fraud_rule |-> FALSE, fraud_source |-> None,
      fraud_reasons |-> << >>, is_fraud_predicted |-> NoneNum ]

no_response == [ status |-> 0, result |-> no_result, transactions |-> << >> ]

idle_request ==
    [ pc           |-> "idle",
      endpoint     |-> None,
      transactions |-> << >>,       \* the request body
      i            |-> 0,           \* index of the transaction being processed
      result       |-> no_result,   \* `result` of the current transaction
      results      |-> << >>,       \* `results` of batch_detect
      response     |-> no_response, \* what the caller received
      state        |-> << >>,       \* per transaction: Received / Done / Failed
      rules_fetch    |-> no_call,        \* how the current fetch_rules() ended
      ml_response    |-> no_ml_response, \* the answer to the current scoring call
      report_outcome |-> no_call,        \* the answer to the current report post
      failed_at    |-> None ]       \* the call that raised, if any

\* ------------------------------------------- Fraud Analysis API, at start
Tasks == 1..NumTasks

idle_task ==
    [ pc          |-> "idle",
      transaction |-> None,    \* Transaction_ID of the transaction posted
      history_df  |-> << >> ]  \* `history_df`

\* HISTORY_FILE and LATEST_FILE do not exist, the flag is False, the dashboard
\* has loaded nothing
api_init ==
    /\ history_file = [ exists |-> FALSE, rows |-> << >> ]
    /\ latest_file = << >>
    /\ new_data_available = FALSE
    /\ task = [ t \in Tasks |-> idle_task ]
    /\ dashboard = [ pc |-> "idle", data |-> << >> ]

\* ------------------------------------------- reporting service, at start
ReportCalls == 1..NumReports

no_report == [ transaction_id |-> None, reporting_entity_id |-> None, fraud_details |-> None ]

no_answer == [ reporting_acknowledged |-> FALSE, failure_code |-> NoneNum ]

idle_report_call ==
    [ pc       |-> "idle",
      report   |-> no_report,   \* the body posted
      response |-> no_answer ]  \* the answer returned

report_init ==
    /\ fraud_reporting = EmptyBag
    /\ report_call = [ h \in ReportCalls |-> idle_report_call ]

\* the calls of check_transaction that are followed statement by statement:
\* two, so that one can run before or while the other runs
Calls == { "first", "second" }

no_transaction == Transaction(None, 0, None, None, None, None)

no_rule_result ==
    [ transaction_id |-> None, is_fraud_rule |-> FALSE, fraud_source |-> None,
      fraud_reasons |-> << >> ]

\* the Payment Processing form, as filled in (a text input left alone is "")
Form(id, amount, gateway, email, ip, browser) ==
    [ transaction_id           |-> id,
      transaction_date         |-> "2025-03-01",
      transaction_amount       |-> amount,
      transaction_channel      |-> "Web",
      transaction_payment_mode |-> "Card",
      payment_gateway_bank     |-> gateway,
      payer_email              |-> email,
      payer_mobile             |-> "900",
      payer_card_brand         |-> "Visa",
      payer_ip                 |-> ip,
      payer_browser            |-> browser,
      payee_id                 |-> "p1" ]

no_form == Form("", 0, "", "", "", "")

idle_evaluation ==
    [ pc          |-> "idle",
      form        |-> no_form,         \* the form the transaction came from, if any
      transaction |-> no_transaction,  \* the argument
      rules       |-> << >>,           \* `rules`
      k           |-> 0,               \* rules the `for` has gone through
      locals      |-> no_fraud,        \* `is_fraud` and `fraud_reasons`
      result      |-> no_rule_result ] \* the dict returned

Init ==
    /\ fraud_rules \in RuleTables
    /\ transactions_table = EmptyBag
    /\ fraud_reports = EmptyBag
    /\ ml_calls = {}
    /\ req = [ r \in Reqs |-> idle_request ]
    /\ evaluation = [ c \in Calls |-> idle_evaluation ]
    /\ api_init
    /\ report_init

\* transactions submitted so far
RECURSIVE submitted(_)
submitted(rs) ==
    IF rs = {} THEN 0
    ELSE LET r == CHOOSE x \in rs : TRUE
         IN  Len(req[r].transactions) + submitted(rs \ {r})

\* requests are numbered in the order they arrive
may_post(r, n) ==
    /\ req[r].pc = "idle"
    /\ \A earlier \in Reqs : earlier < r => req[earlier].pc # "idle"
    /\ submitted(Reqs) + n <= MaxTransactions

\* request bodies of POST /batchdetect
Batches == UNION { [ 1..n -> Transactions ] : n \in 0..MaxTransactions }

received(n) == [ k \in 1..n |-> "Received" ]

\* an exception leaves the handler: nothing in detect / batch_detect catches
raise(q, where) ==
    [ q EXCEPT !.pc = "raised",
               !.state[q.i] = "Failed",
               !.failed_at = where ]

\* the handler is over: its locals are gone, the caller has the response
ended(q, response) ==
    [ q EXCEPT !.pc = "done",
               !.response = response,
               !.result = no_result,
               !.results = << >>,
               !.rules_fetch = no_call,
               !.ml_response = no_ml_response,
               !.report_outcome = no_call ]

\* the transaction the request is working on
current(q) == q.transactions[q.i]

\* a test that takes None for a positive prediction (`is not False`)
is_positive_unless_false(result) == result.is_fraud_rule \/ result.is_fraud_predicted # 0

\* a test that looks at the rule verdict only
is_positive_by_rule_only(result) == result.is_fraud_rule

\* `result["is_fraud_rule"] or result["is_fraud_predicted"]`
is_positive(result) == result.is_fraud_rule \/ TruthyNum(result.is_fraud_predicted)

\* one more copy of row in a table
insert(table, row) == table (+) SetToBag({ row })

\* a row that stores a missing prediction as 0
ledger_row_null_as_false(r, i, transaction, result_rule, result_predict) ==
    [ req |-> r, i |-> i,
      transaction_id_anonymous           |-> transaction.transaction_id,
      transaction_date                   |-> transaction.transaction_date,
      transaction_amount                 |-> transaction.transaction_amount,
      transaction_channel                |-> transaction.transaction_channel,
      transaction_payment_mode_anonymous |-> transaction.transaction_payment_mode,
      payment_gateway_bank_anonymous     |-> transaction.payment_gateway_bank,
      payer_email_anonymous              |-> transaction.payer_email,
      payer_mobile_anonymous             |-> transaction.payer_mobile,
      payer_browser_anonymous            |-> transaction.payer_browser,
      payee_id_anonymous                 |-> transaction.payee_id,
      is_fraud_rule                      |-> result_rule,
      is_fraud_predict                   |-> IF result_predict = NoneNum THEN 0
                                             ELSE result_predict,
      payee_ip_anonymous                 |-> None ]

\* the row upload_transaction inserts (req and i tell which attempt wrote it)
ledger_row(r, i, transaction, result_rule, result_predict) ==
    [ req |-> r, i |-> i,
      transaction_id_anonymous           |-> transaction.transaction_id,
      transaction_date                   |-> transaction.transaction_date,
      transaction_amount                 |-> transaction.transaction_amount,
      transaction_channel                |-> transaction.transaction_channel,
      transaction_payment_mode_anonymous |-> transaction.transaction_payment_mode,
      payment_gateway_bank_anonymous     |-> transaction.payment_gateway_bank,
      payer_email_anonymous              |-> transaction.payer_email,
      payer_mobile_anonymous             |-> transaction.payer_mobile,
      payer_browser_anonymous            |-> transaction.payer_browser,
      payee_id_anonymous                 |-> transaction.payee_id,
      is_fraud_rule                      |-> result_rule,
      is_fraud_predict                   |-> result_predict,
      payee_ip_anonymous                 |-> None ]

\* an upload_transaction that replaces the stored rows of the same
\* transaction_id (REPLACE INTO)
upload_transaction_replacing(table, db_up, row) ==
    IF db_up
    THEN LET others == { stored \in BagToSet(table) :
                           stored.transaction_id_anonymous # row.transaction_id_anonymous }
         IN  insert([ stored \in others |-> CopiesIn(stored, table) ], row)
    ELSE table

\* an upload_transaction that leaves out a transaction_id the table already
\* holds
upload_transaction_deduplicating(table, db_up, row) ==
    IF db_up /\ \A stored \in BagToSet(table) :
                   stored.transaction_id_anonymous # row.transaction_id_anonymous
    THEN insert(table, row)
    ELSE table

\* upload_transaction: one INSERT and its commit; nothing is written when the
\* store is down (get_db_connection, execute or commit raises)
upload_transaction(table, db_up, row) ==
    IF db_up THEN insert(table, row) ELSE table

\* a call of upload_transaction in a try/except that goes on after a failure
call_upload_transaction_swallowing(q, db_up) == q

\* the call upload_transaction(...) of detect and batch_detect: its exception
\* is not caught
call_upload_transaction(q, db_up) ==
    IF db_up THEN q ELSE raise(q, "upload_transaction")

\* the post send_fraud_report makes
report_data(r, i, transaction_id, fraud_details) ==
    [ req |-> r, i |-> i,
      transaction_id      |-> transaction_id,
      reporting_entity_id |-> "system",
      fraud_details       |-> fraud_details ]

\* a send_fraud_report without its try/except: a failed post raises
send_fraud_report_raising(q, outcome) ==
    IF outcome = "unreachable"
    THEN raise([ q EXCEPT !.report_outcome = outcome ], "send_fraud_report")
    ELSE [ q EXCEPT !.report_outcome = outcome ]

\* send_fraud_report: post the report; an exception of the post is swallowed
\* and the response is not looked at
send_fraud_report(q, outcome) == [ q EXCEPT !.report_outcome = outcome ]

\* a merge that also sets is_fraud_rule when the prediction is positive
with_prediction_overriding(result, ml_prediction) ==
    [ transaction_id     |-> result.transaction_id,
      is_fraud_rule      |-> result.is_fraud_rule \/ ml_prediction = 1,
      fraud_source       |-> result.fraud_source,
      fraud_reasons      |-> result.fraud_reasons,
      is_fraud_predicted |-> ml_prediction ]

\* result["is_fraud_predicted"] = ml_prediction
with_prediction(result, ml_prediction) ==
    [ transaction_id     |-> result.transaction_id,
      is_fraud_rule      |-> result.is_fraud_rule,
      fraud_source       |-> result.fraud_source,
      fraud_reasons      |-> result.fraud_reasons,
      is_fraud_predicted |-> ml_prediction ]

\* a check_transaction that catches the failure of fetch_rules() and goes on
\* with no rules
call_check_transaction_without_rules(q, db_up) ==
    [ q EXCEPT !.rules_fetch = IF db_up THEN "fetched" ELSE "StoreUnavailable",
               !.result = check_transaction(current(q),
                                            IF db_up THEN fetch_rules(fraud_rules) ELSE << >>),
               !.pc = "score" ]

\* the call check_transaction(transaction_dict) of detect and batch_detect:
\* fetch_rules() raises when the store is down, and nothing catches it
call_check_transaction(q, db_up) ==
    IF db_up
    THEN [ q EXCEPT !.rules_fetch = "fetched",
                    !.result = check_transaction(current(q), fetch_rules(fraud_rules)),
                    !.pc = "score" ]
    ELSE raise([ q EXCEPT !.rules_fetch = "StoreUnavailable" ], "fetch_rules")

\* a handler that keeps the scoring answer in a module-level variable: the
\* answer of another request in flight is merged when there is one
call_get_ml_prediction_sharing(q, response) ==
    LET others == { r \in DOMAIN req : req[r].ml_response # no_ml_response }
        shared == IF others = {} THEN response
                  ELSE req[CHOOSE r \in others : TRUE].ml_response
    IN  [ q EXCEPT !.ml_response = response,
                   !.result = with_prediction(q.result, get_ml_prediction(shared)) ]

\* ml_prediction = get_ml_prediction(transaction_dict);
\* result["is_fraud_predicted"] = ml_prediction
call_get_ml_prediction(q, response) ==
    [ q EXCEPT !.ml_response = response,
               !.result = with_prediction(q.result, get_ml_prediction(response)) ]

\* ------------------------------------------------------------ POST /detect
\* a caller posts one transaction to /detect
post_detect(r) ==
    /\ may_post(r, 1)
    /\ \E transaction \in Transactions :
          req' = [ req EXCEPT ![r] =
                     [ idle_request EXCEPT !.pc = "check", !.endpoint = "detect",
                                           !.transactions = << transaction >>,
                                           !.i = 1, !.state = received(1) ] ]
    /\ UNCHANGED << api_vars, report_vars, evaluation, fraud_rules, transactions_table, fraud_reports, ml_calls >>

\* detect, line 138: result = check_transaction(transaction_dict)
detect_check(r) ==
    LET q == req[r] IN
    /\ q.pc = "check" /\ q.endpoint = "detect"
    /\ \E db_up \in BOOLEAN :
          req' = [ req EXCEPT ![r] = call_check_transaction(q, db_up) ]
    /\ UNCHANGED << api_vars, report_vars, evaluation, fraud_rules, transactions_table, fraud_reports, ml_calls >>

\* detect, lines 139-141: the scoring call, the merge and the test of line 141
detect_score(r) ==
    LET q == req[r] IN
    /\ q.pc = "score" /\ q.endpoint = "detect"
    /\ \E response \in MLResponses :
          LET q2 == call_get_ml_prediction(q, response) IN
          /\ ml_calls' = ml_calls \cup { [ req |-> r, i |-> q.i ] }
          /\ req' = [ req EXCEPT ![r] =
                        [ q2 EXCEPT !.pc = IF is_positive(q2.result)
                                           THEN "report" ELSE "upload" ] ]
    /\ UNCHANGED << api_vars, report_vars, evaluation, fraud_rules, transactions_table, fraud_reports >>

\* detect, line 142: send_fraud_report(transaction_id, ", ".join(fraud_reasons))
detect_report(r) ==
    LET q == req[r] IN
    /\ q.pc = "report" /\ q.endpoint = "detect"
    /\ \E outcome \in ReportOutcomes :
          /\ fraud_reports' = insert(fraud_reports,
                                     report_data(r, q.i, current(q).transaction_id,
                                                 Join(q.result.fraud_reasons)))
          /\ req' = [ req EXCEPT ![r] =
                        LET q2 == send_fraud_report(q, outcome) IN
                        IF q2.pc = "raised" THEN q2 ELSE [ q2 EXCEPT !.pc = "upload" ] ]
    /\ UNCHANGED << api_vars, report_vars, evaluation, fraud_rules, transactions_table, ml_calls >>

\* detect, line 143: upload_transaction(...)
detect_upload(r) ==
    LET q == req[r] IN
    /\ q.pc = "upload" /\ q.endpoint = "detect"
    /\ \E db_up \in BOOLEAN :
          /\ transactions_table' =
                upload_transaction(transactions_table, db_up,
                                   ledger_row(r, q.i, current(q), q.result.is_fraud_rule,
                                              q.result.is_fraud_predicted))
          /\ req' = [ req EXCEPT ![r] =
                        LET q2 == call_upload_transaction(q, db_up) IN
                        IF q2.pc = "raised" THEN q2
                        ELSE [ q2 EXCEPT !.pc = "return", !.state[q.i] = "Done" ] ]
    /\ UNCHANGED << api_vars, report_vars, evaluation, fraud_rules, fraud_reports, ml_calls >>

\* detect, line 144: return result
detect_return(r) ==
    LET q == req[r] IN
    /\ q.pc = "return" /\ q.endpoint = "detect"
    /\ req' = [ req EXCEPT ![r] =
                  ended(q, [ no_response EXCEPT !.status = 200, !.result = q.result ]) ]
    /\ UNCHANGED << api_vars, report_vars, evaluation, fraud_rules, transactions_table, fraud_reports, ml_calls >>

\* ------------------------------------------------------- POST /batchdetect
\* batch_detect, line 153: the `for` goes to the next transaction, or the loop
\* is over and line 169 is next
next_transaction(q) ==
    [ q EXCEPT !.pc = IF q.i < Len(q.transactions) THEN "check" ELSE "return" ]

\* batch_detect, lines 162-167: results.append({...})
append_result(q) ==
    [ q EXCEPT !.results = Append(q.results,
                                  [ transaction_id     |-> current(q).transaction_id,
                                    is_fraud_rule      |-> q.result.is_fraud_rule,
                                    is_fraud_predicted |-> q.result.is_fraud_predicted,
                                    fraud_reasons      |-> Join(q.result.fraud_reasons) ]),
               !.state[q.i] = "Done" ]

\* a caller posts a list of transactions to /batchdetect
post_batchdetect(r) ==
    /\ \E transactions \in Batches :
          /\ may_post(r, Len(transactions))
          /\ req' = [ req EXCEPT ![r] =
                        next_transaction(
                          [ idle_request EXCEPT !.endpoint = "batchdetect",
                                                !.transactions = transactions,
                                                !.state = received(Len(transactions)) ]) ]
    /\ UNCHANGED << api_vars, report_vars, evaluation, fraud_rules, transactions_table, fraud_reports, ml_calls >>

\* batch_detect, line 153: `transaction` becomes the next element; its
\* iteration starts with fresh locals
start_iteration(q) ==
    [ q EXCEPT !.i = q.i + 1,
               !.rules_fetch = no_call,
               !.ml_response = no_ml_response,
               !.report_outcome = no_call ]

\* batch_detect, lines 153-155: result = check_transaction(transaction_dict)
batch_check(r) ==
    LET q == req[r] IN
    /\ q.pc = "check" /\ q.endpoint = "batchdetect"
    /\ \E db_up \in BOOLEAN :
          req' = [ req EXCEPT ![r] = call_check_transaction(start_iteration(q), db_up) ]
    /\ UNCHANGED << api_vars, report_vars, evaluation, fraud_rules, transactions_table, fraud_reports, ml_calls >>

\* batch_detect, lines 156-157: the scoring call and the merge
batch_score(r) ==
    LET q == req[r] IN
    /\ q.pc = "score" /\ q.endpoint = "batchdetect"
    /\ \E response \in MLResponses :
          /\ ml_calls' = ml_calls \cup { [ req |-> r, i |-> q.i ] }
          /\ req' = [ req EXCEPT ![r] =
                        [ call_get_ml_prediction(q, response) EXCEPT !.pc = "upload" ] ]
    /\ UNCHANGED << api_vars, report_vars, evaluation, fraud_rules, transactions_table, fraud_reports >>

\* batch_detect, lines 159-160: upload_transaction(...) and the test of line
\* 160; lines 162-167 follow at once when there is nothing to report
batch_upload(r) ==
    LET q == req[r] IN
    /\ q.pc = "upload" /\ q.endpoint = "batchdetect"
    /\ \E db_up \in BOOLEAN :
          /\ transactions_table' =
                upload_transaction(transactions_table, db_up,
                                   ledger_row(r, q.i, current(q), q.result.is_fraud_rule,
                                              q.result.is_fraud_predicted))
          /\ req' = [ req EXCEPT ![r] =
                        LET q2 == call_upload_transaction(q, db_up) IN
                        IF q2.pc = "raised" THEN q2
                        ELSE IF is_positive(q2.result)
                             THEN [ q2 EXCEPT !.pc = "report" ]
                             ELSE next_transaction(append_result(q2)) ]
    /\ UNCHANGED << api_vars, report_vars, evaluation, fraud_rules, fraud_reports, ml_calls >>

\* batch_detect, lines 161-167: send_fraud_report(...) and results.append
batch_report(r) ==
    LET q == req[r] IN
    /\ q.pc = "report" /\ q.endpoint = "batchdetect"
    /\ \E outcome \in ReportOutcomes :
          /\ fraud_reports' = insert(fraud_reports,
                                     report_data(r, q.i, current(q).transaction_id,
                                                 Join(q.result.fraud_reasons)))
          /\ req' = [ req EXCEPT ![r] =
                        LET q2 == send_fraud_report(q, outcome) IN
                        IF q2.pc = "raised" THEN q2 ELSE next_transaction(append_result(q2)) ]
    /\ UNCHANGED << api_vars, report_vars, evaluation, fraud_rules, transactions_table, ml_calls >>

\* batch_detect, line 169: return {"transactions": results}
batch_return(r) ==
    LET q == req[r] IN
    /\ q.pc = "return" /\ q.endpoint = "batchdetect"
    /\ req' = [ req EXCEPT ![r] =
                  ended(q, [ no_response EXCEPT !.status = 200,
                                                !.transactions = q.results ]) ]
    /\ UNCHANGED << api_vars, report_vars, evaluation, fraud_rules, transactions_table, fraud_reports, ml_calls >>

\* get_ml_prediction, line 124: requests.post is given no timeout; when the
\* scoring service accepts the post and never answers, the call never returns
score_unanswered(r) ==
    LET q == req[r] IN
    /\ q.pc = "score"
    /\ ml_calls' = ml_calls \cup { [ req |-> r, i |-> q.i ] }
    /\ req' = [ req EXCEPT ![r] = [ q EXCEPT !.pc = "scoring" ] ]
    /\ UNCHANGED << api_vars, report_vars, evaluation, fraud_rules, transactions_table, fraud_reports >>

\* the exception reaches the framework: the caller gets 500 Internal Server
\* Error
error_response(r) ==
    LET q == req[r] IN
    /\ q.pc = "raised"
    /\ req' = [ req EXCEPT ![r] = ended(q, [ no_response EXCEPT !.status = 500 ]) ]
    /\ UNCHANGED << api_vars, report_vars, evaluation, fraud_rules, transactions_table, fraud_reports, ml_calls >>

\* one statement of the handler of request r
step(r) ==
    \/ detect_check(r)
    \/ detect_score(r)
    \/ detect_report(r)
    \/ detect_upload(r)
    \/ detect_return(r)
    \/ batch_check(r)
    \/ batch_score(r)
    \/ score_unanswered(r)
    \/ batch_upload(r)
    \/ batch_report(r)
    \/ batch_return(r)
    \/ error_response(r)

Next ==
    \E r \in Reqs :
       \/ post_detect(r)
       \/ post_batchdetect(r)
       \/ step(r)

Spec == Init /\ [][Next]_vars

\* a handler that has started keeps running (each request has its own thread
\* of the server's pool)
FairSpec == Spec /\ \A r \in Reqs : WF_vars(step(r))

\* ------------------------------------------------------ concurrent requests
\* The server runs detect and batch_detect on the threads of its pool: the
\* handlers of several requests interleave statement by statement.  Each
\* request here carries one transaction.
ConcReqs == 1..(NumReqs + 1)

ConcInit ==
    /\ fraud_rules \in RuleTables
    /\ transactions_table = EmptyBag
    /\ fraud_reports = EmptyBag
    /\ ml_calls = {}
    /\ req = [ r \in ConcReqs |-> idle_request ]
    /\ evaluation = [ c \in Calls |-> idle_evaluation ]
    /\ api_init
    /\ report_init

\* requests are numbered in the order they arrive
arrives(r) ==
    /\ req[r].pc = "idle"
    /\ \A earlier \in ConcReqs : earlier < r => req[earlier].pc # "idle"

\* POST /detect while other requests are in flight
concurrent_detect(r) ==
    /\ arrives(r)
    /\ \E transaction \in Transactions :
          req' = [ req EXCEPT ![r] =
                     [ idle_request EXCEPT !.pc = "check", !.endpoint = "detect",
                                           !.transactions = << transaction >>,
                                           !.i = 1, !.state = received(1) ] ]
    /\ UNCHANGED << api_vars, report_vars, evaluation, fraud_rules, transactions_table,
                    fraud_reports, ml_calls >>

\* POST /batchdetect with one transaction while other requests are in flight
concurrent_batchdetect(r) ==
    /\ arrives(r)
    /\ \E transaction \in Transactions :
          req' = [ req EXCEPT ![r] =
                     next_transaction(
                       [ idle_request EXCEPT !.endpoint = "batchdetect",
                                             !.transactions = << transaction >>,
                                             !.state = received(1) ]) ]
    /\ UNCHANGED << api_vars, report_vars, evaluation, fraud_rules, transactions_table,
                    fraud_reports, ml_calls >>

ConcNext ==
    \E r \in ConcReqs :
       \/ concurrent_detect(r)
       \/ concurrent_batchdetect(r)
       \/ step(r)

ConcSpec == ConcInit /\ [][ConcNext]_vars

\* ------------------------------------------------------ check_transaction
\* check_transaction(transaction) followed statement by statement, for the
\* transactions and the fraud_rules tables below.

\* the transactions evaluated: those of Transactions, and one below the
\* threshold whose fields are empty or differ in case from the blocked values
EvalTransactions ==
    Transactions \cup { Transaction("t3", 4, "GW1", "A@b.com", "", "") }

\* the rules add_rule() can have inserted (ids are given by the table); the
\* text input of a blocked value can be left empty
RulePool ==
    { Rule(0, "Threshold Value", 5, 1),
      Rule(0, "Threshold Value", 4, 0),
      Rule(0, "Blocked IP", "1.2.3.4", 1),
      Rule(0, "Blocked IP", "", 1),
      Rule(0, "Blocked Payment Gateway", "gw1", 1),
      Rule(0, "Blocked Browser", "Chrome", 1),
      Rule(0, "Blocked Email", "a@b.com", 1) }

\* the fraud_rules tables of up to MaxRules rows, ids in insertion order
RuleSets ==
    UNION { { [ k \in 1..n |-> [ pool[k] EXCEPT !.id = k ] ] : pool \in [ 1..n -> RulePool ] }
            : n \in 0..MaxRules }

RuleInit ==
    /\ fraud_rules \in RuleSets
    /\ transactions_table = EmptyBag
    /\ fraud_reports = EmptyBag
    /\ ml_calls = {}
    /\ req = [ r \in Reqs |-> idle_request ]
    /\ evaluation = [ c \in Calls |-> idle_evaluation ]
    /\ api_init
    /\ report_init

\* locals that are not made anew by the call (a mutable default argument)
fresh_locals_kept(c) == evaluation[c].locals

\* check_transaction, lines 68-69: is_fraud = False; fraud_reasons = []
fresh_locals(c) == no_fraud

\* check_transaction, lines 66-70: the call, rules = fetch_rules() and the
\* locals
check_transaction_begin(c) ==
    /\ evaluation[c].pc \in { "idle", "returned" }
    /\ \E transaction \in EvalTransactions :
          evaluation' = [ evaluation EXCEPT ![c] =
                            [ pc          |-> "for",
                              form        |-> no_form,
                              transaction |-> transaction,
                              rules       |-> fetch_rules(fraud_rules),
                              k           |-> 0,
                              locals      |-> fresh_locals(c),
                              result      |-> no_rule_result ] ]
    /\ UNCHANGED << api_vars, report_vars, fraud_rules, transactions_table, fraud_reports,
                    ml_calls, req >>

\* check_transaction, lines 72-99: one pass of `for rule in rules:`
check_transaction_rule(c) ==
    LET e == evaluation[c] IN
    /\ e.pc = "for" /\ e.k < Len(e.rules)
    /\ evaluation' = [ evaluation EXCEPT ![c] =
                         [ e EXCEPT !.k = e.k + 1,
                                    !.locals = check_rule(e.locals, e.transaction,
                                                          e.rules[e.k + 1]) ] ]
    /\ UNCHANGED << api_vars, report_vars, fraud_rules, transactions_table, fraud_reports,
                    ml_calls, req >>

\* check_transaction, line 101: the loop is over, return {...}
check_transaction_return(c) ==
    LET e == evaluation[c] IN
    /\ e.pc = "for" /\ e.k = Len(e.rules)
    /\ evaluation' = [ evaluation EXCEPT ![c] =
                         [ e EXCEPT !.pc = "returned",
                                    !.result =
                                       [ transaction_id |-> e.transaction.transaction_id,
                                         is_fraud_rule  |-> e.locals.is_fraud,
                                         fraud_source   |-> "rule",
                                         fraud_reasons  |-> e.locals.fraud_reasons ] ] ]
    /\ UNCHANGED << api_vars, report_vars, fraud_rules, transactions_table, fraud_reports,
                    ml_calls, req >>

\* ------------------------------------------------- rows of any shape
\* rows the fraud_rules table can hold beside those add_rule() writes: every
\* payload column is nullable on its own, so a row can carry more than the
\* column of its rule_type
AnyRowPool ==
    RulePool \cup
    { [ Rule(0, "Threshold Value", 5, 1) EXCEPT !.blocked_ip = "1.2.3.4" ],
      [ Rule(0, "Blocked IP", "1.2.3.4", 1) EXCEPT !.threshold = 5 ],
      [ Rule(0, "Blocked Email", "a@b.com", 1) EXCEPT !.blocked_payer_browser = "Chrome" ] }

AnyRowSets ==
    UNION { { [ k \in 1..n |-> [ pool[k] EXCEPT !.id = k ] ] : pool \in [ 1..n -> AnyRowPool ] }
            : n \in 0..MaxRules }

AnyRowInit ==
    /\ fraud_rules \in AnyRowSets
    /\ transactions_table = EmptyBag
    /\ fraud_reports = EmptyBag
    /\ ml_calls = {}
    /\ req = [ r \in Reqs |-> idle_request ]
    /\ evaluation = [ c \in Calls |-> idle_evaluation ]
    /\ api_init
    /\ report_init

\* ------------------------------------------------ Payment Processing form
\* the forms submitted: one with every field filled in, one with the text
\* inputs left empty
Forms ==
    { Form("t1", 6, "gw1", "a@b.com", "1.2.3.4", "Chrome"),
      Form("t2", 5, "", "", "", "") }

\* transaction_data of the form: the JSON body posted to /detect; the input
\* read into payer_ip goes under the key "payer_device"
transaction_data(form) ==
    [ transaction_amount       |-> form.transaction_amount,
      transaction_date         |-> form.transaction_date,
      transaction_channel      |-> form.transaction_channel,
      transaction_payment_mode |-> form.transaction_payment_mode,
      payment_gateway_bank     |-> form.payment_gateway_bank,
      payer_browser            |-> form.payer_browser,
      payer_email              |-> form.payer_email,
      payer_device             |-> form.payer_ip,
      payer_mobile             |-> form.payer_mobile,
      transaction_id           |-> form.transaction_id,
      payee_id                 |-> form.payee_id,
      payer_card_brand         |-> form.payer_card_brand ]

\* an Optional[str] = None field of the Transaction model: the value under
\* its own name in the body, None when the body has no such key
optional(data, field) == IF field \in DOMAIN data THEN data[field] ELSE None

\* Transaction(**body).dict(): the model's fields; keys of the body that are
\* no field of the model are ignored
parse_transaction(data) ==
    [ transaction_id           |-> data.transaction_id,
      transaction_date         |-> data.transaction_date,
      transaction_amount       |-> data.transaction_amount,
      transaction_channel      |-> optional(data, "transaction_channel"),
      transaction_payment_mode |-> optional(data, "transaction_payment_mode"),
      payment_gateway_bank     |-> optional(data, "payment_gateway_bank"),
      payer_email              |-> optional(data, "payer_email"),
      payer_mobile             |-> optional(data, "payer_mobile"),
      payer_card_brand         |-> optional(data, "payer_card_brand"),
      payer_ip                 |-> optional(data, "payer_ip"),
      payer_browser            |-> optional(data, "payer_browser"),
      payee_id                 |-> optional(data, "payee_id") ]

\* "Check for Fraud": the form is posted to /detect, whose line 138 calls
\* check_transaction(transaction.dict())
form_check_for_fraud(c) ==
    /\ evaluation[c].pc \in { "idle", "returned" }
    /\ \E form \in Forms :
          evaluation' = [ evaluation EXCEPT ![c] =
                            [ pc          |-> "for",
                              form        |-> form,
                              transaction |-> parse_transaction(transaction_data(form)),
                              rules       |-> fetch_rules(fraud_rules),
                              k           |-> 0,
                              locals      |-> fresh_locals(c),
                              result      |-> no_rule_result ] ]
    /\ UNCHANGED << api_vars, report_vars, fraud_rules, transactions_table, fraud_reports,
                    ml_calls, req >>

FormNext ==
    \E c \in Calls :
       \/ form_check_for_fraud(c)
       \/ check_transaction_rule(c)
       \/ check_transaction_return(c)

RuleNext ==
    \E c \in Calls :
       \/ check_transaction_begin(c)
       \/ check_transaction_rule(c)
       \/ check_transaction_return(c)

RuleSpec == RuleInit /\ [][RuleNext]_vars

\* check_transaction over fraud_rules rows of any shape
AnyRowSpec == AnyRowInit /\ [][RuleNext]_vars

\* check_transaction for the transactions that come from the form
FormSpec == RuleInit /\ [][FormNext]_vars

\* ------------------------------------------------------ Fraud Analysis API
\* api.py: POST /transactions/ hands the transaction to a background task;
\* process_transaction is a plain function, so the tasks run on the threads of
\* the server's pool, interleaved statement by statement.  dashboard.py polls
\* check_for_new_data (Refresh button and auto-refresh), here with the flag of
\* api.py (USE_DATABASE False).

\* Transaction_ID values posted
ApiTransactions == { "T1", "T2" }

\* the row process_transaction builds for the transaction of task t
transaction_df(t) == [ Transaction_ID |-> task[t].transaction, task |-> t ]

\* DataFrame.to_csv(HISTORY_FILE): the file is replaced by the frame
to_csv(df) == [ exists |-> TRUE, rows |-> df ]

\* pd.concat([history_df, transaction_df])
concat(history_df, row) == Append(history_df, row)

\* POST /transactions/: add_task(process_transaction, transaction), answer 202
add_transaction(t) ==
    /\ task[t].pc = "idle"
    /\ \E id \in ApiTransactions :
           task' = [ task EXCEPT ![t] = [ idle_task EXCEPT !.pc = "latest",
                                                            !.transaction = id ] ]
    /\ UNCHANGED << history_file, latest_file, new_data_available, dashboard >>
    /\ UNCHANGED << report_vars, evaluation, fraud_rules, transactions_table,
                    fraud_reports, ml_calls, req >>

\* process_transaction: transaction_df.to_csv(LATEST_FILE)
task_latest(t) ==
    /\ task[t].pc = "latest"
    /\ latest_file' = << transaction_df(t) >>
    /\ task' = [ task EXCEPT ![t].pc = "exists" ]
    /\ UNCHANGED << history_file, new_data_available, dashboard >>
    /\ UNCHANGED << report_vars, evaluation, fraud_rules, transactions_table,
                    fraud_reports, ml_calls, req >>

\* process_transaction: if os.path.exists(HISTORY_FILE)
task_exists(t) ==
    /\ task[t].pc = "exists"
    /\ task' = [ task EXCEPT ![t].pc = IF history_file.exists THEN "read" ELSE "create" ]
    /\ UNCHANGED << history_file, latest_file, new_data_available, dashboard >>
    /\ UNCHANGED << report_vars, evaluation, fraud_rules, transactions_table,
                    fraud_reports, ml_calls, req >>

\* process_transaction: history_df = pd.read_csv(HISTORY_FILE)
task_read(t) ==
    /\ task[t].pc = "read"
    /\ task' = [ task EXCEPT ![t].pc = "write", ![t].history_df = history_file.rows ]
    /\ UNCHANGED << history_file, latest_file, new_data_available, dashboard >>
    /\ UNCHANGED << report_vars, evaluation, fraud_rules, transactions_table,
                    fraud_reports, ml_calls, req >>

\* process_transaction: updated_history = concat; updated_history.to_csv
task_write(t) ==
    /\ task[t].pc = "write"
    /\ history_file' = to_csv(concat(task[t].history_df, transaction_df(t)))
    /\ task' = [ task EXCEPT ![t].pc = "flag", ![t].history_df = << >> ]
    /\ UNCHANGED << latest_file, new_data_available, dashboard >>
    /\ UNCHANGED << report_vars, evaluation, fraud_rules, transactions_table,
                    fraud_reports, ml_calls, req >>

\* process_transaction: else transaction_df.to_csv(HISTORY_FILE)
task_create(t) ==
    /\ task[t].pc = "create"
    /\ history_file' = to_csv(<< transaction_df(t) >>)
    /\ task' = [ task EXCEPT ![t].pc = "flag" ]
    /\ UNCHANGED << latest_file, new_data_available, dashboard >>
    /\ UNCHANGED << report_vars, evaluation, fraud_rules, transactions_table,
                    fraud_reports, ml_calls, req >>

\* process_transaction: with new_data_lock: new_data_available = True
task_flag(t) ==
    /\ task[t].pc = "flag"
    /\ new_data_available' = TRUE
    /\ task' = [ task EXCEPT ![t].pc = "done" ]
    /\ UNCHANGED << history_file, latest_file, dashboard >>
    /\ UNCHANGED << report_vars, evaluation, fraud_rules, transactions_table,
                    fraud_reports, ml_calls, req >>

\* has_new_data(): the flag, read under the lock
has_new_data == new_data_available

\* check_for_new_data: elif has_new_data(); a False flag returns False
dashboard_check ==
    /\ dashboard.pc = "idle"
    /\ has_new_data
    /\ dashboard' = [ dashboard EXCEPT !.pc = "load" ]
    /\ UNCHANGED << history_file, latest_file, new_data_available, task >>
    /\ UNCHANGED << report_vars, evaluation, fraud_rules, transactions_table,
                    fraud_reports, ml_calls, req >>

\* check_for_new_data: if os.path.exists(HISTORY_FILE): new_data = read_csv;
\* st.session_state.data = new_data; without the file the call returns False
dashboard_load ==
    /\ dashboard.pc = "load"
    /\ dashboard' = IF history_file.exists
                    THEN [ pc |-> "reset", data |-> history_file.rows ]
                    ELSE [ dashboard EXCEPT !.pc = "idle" ]
    /\ UNCHANGED << history_file, latest_file, new_data_available, task >>
    /\ UNCHANGED << report_vars, evaluation, fraud_rules, transactions_table,
                    fraud_reports, ml_calls, req >>

\* reset_new_data_flag(): new_data_available = False, under the lock
reset_new_data_flag(available) == FALSE

\* check_for_new_data: reset_new_data_flag(); return True
dashboard_reset ==
    /\ dashboard.pc = "reset"
    /\ new_data_available' = reset_new_data_flag(new_data_available)
    /\ dashboard' = [ dashboard EXCEPT !.pc = "idle" ]
    /\ UNCHANGED << history_file, latest_file, task >>
    /\ UNCHANGED << report_vars, evaluation, fraud_rules, transactions_table,
                    fraud_reports, ml_calls, req >>

ApiNext ==
    \/ \E t \in Tasks :
           \/ add_transaction(t)
           \/ task_latest(t)
           \/ task_exists(t)
           \/ task_read(t)
           \/ task_write(t)
           \/ task_create(t)
           \/ task_flag(t)
    \/ dashboard_check
    \/ dashboard_load
    \/ dashboard_reset

ApiSpec == Init /\ [][ApiNext]_vars

\* ------------------------------------------------------ reporting service
\* reportserver.py: POST /report followed statement by statement.  Every
\* statement of the try block that talks to the database can raise.

\* the bodies posted: what send_fraud_report sends for a flagged transaction
Reports ==
    { [ transaction_id      |-> id,
        reporting_entity_id |-> "system",
        fraud_details       |-> details ] :
          id \in { "t1", "t2" }, details \in { "", "Blocked IP: 1.2.3.4" } }

\* values = (transaction_id, reporting_entity_id, fraud_details, True); the
\* call that inserts the row is kept with it
reporting_row(h) ==
    [ call                |-> h,
      transaction_id      |-> report_call[h].report.transaction_id,
      reporting_entity_id |-> report_call[h].report.reporting_entity_id,
      fraud_details       |-> report_call[h].report.fraud_details,
      is_fraud_reported   |-> TRUE ]

\* a statement of the try block: on to `next`, or to the except clause
try_statement(h, ok, next) ==
    [ report_call EXCEPT ![h].pc = IF ok THEN next ELSE "except" ]

\* POST /report with a valid body
post_report(h) ==
    /\ report_call[h].pc = "idle"
    /\ \E report \in Reports :
           report_call' = [ report_call EXCEPT ![h].pc = "connect", ![h].report = report ]
    /\ UNCHANGED fraud_reporting
    /\ UNCHANGED << api_vars, evaluation, fraud_rules, transactions_table,
                    fraud_reports, ml_calls, req >>

\* report_fraud: conn = get_db_connection(); cursor = conn.cursor()
report_connect(h) ==
    /\ report_call[h].pc = "connect"
    /\ \E ok \in BOOLEAN : report_call' = try_statement(h, ok, "execute")
    /\ UNCHANGED fraud_reporting
    /\ UNCHANGED << api_vars, evaluation, fraud_rules, transactions_table,
                    fraud_reports, ml_calls, req >>

\* report_fraud: cursor.execute(query, values); the row is not yet committed
report_execute(h) ==
    /\ report_call[h].pc = "execute"
    /\ \E ok \in BOOLEAN : report_call' = try_statement(h, ok, "commit")
    /\ UNCHANGED fraud_reporting
    /\ UNCHANGED << api_vars, evaluation, fraud_rules, transactions_table,
                    fraud_reports, ml_calls, req >>

\* report_fraud: conn.commit(); a commit that raises adds no row
report_commit(h) ==
    /\ report_call[h].pc = "commit"
    /\ \E ok \in BOOLEAN :
           /\ report_call' = try_statement(h, ok, "close")
           /\ fraud_reporting' = IF ok
                                 THEN fraud_reporting (+) SetToBag({ reporting_row(h) })
                                 ELSE fraud_reporting
    /\ UNCHANGED << api_vars, evaluation, fraud_rules, transactions_table,
                    fraud_reports, ml_calls, req >>

\* report_fraud: conn.close(), still inside the try block
report_close(h) ==
    /\ report_call[h].pc = "close"
    /\ \E ok \in BOOLEAN : report_call' = try_statement(h, ok, "return")
    /\ UNCHANGED fraud_reporting
    /\ UNCHANGED << api_vars, evaluation, fraud_rules, transactions_table,
                    fraud_reports, ml_calls, req >>

\* report_fraud: return {..., "reporting_acknowledged": True, "failure_code": 0}
report_return(h) ==
    /\ report_call[h].pc = "return"
    /\ report_call' = [ report_call EXCEPT
                          ![h].pc = "answered",
                          ![h].response = [ reporting_acknowledged |-> TRUE,
                                            failure_code |-> 0 ] ]
    /\ UNCHANGED fraud_reporting
    /\ UNCHANGED << api_vars, evaluation, fraud_rules, transactions_table,
                    fraud_reports, ml_calls, req >>

\* report_fraud: except Exception: return {..., "reporting_acknowledged":
\* False, "failure_code": 1}
report_except(h) ==
    /\ report_call[h].pc = "except"
    /\ report_call' = [ report_call EXCEPT
                          ![h].pc = "answered",
                          ![h].response = [ reporting_acknowledged |-> FALSE,
                                            failure_code |-> 1 ] ]
    /\ UNCHANGED fraud_reporting
    /\ UNCHANGED << api_vars, evaluation, fraud_rules, transactions_table,
                    fraud_reports, ml_calls, req >>

ReportNext ==
    \E h \in ReportCalls :
        \/ post_report(h)
        \/ report_connect(h)
        \/ report_execute(h)
        \/ report_commit(h)
        \/ report_close(h)
        \/ report_return(h)
        \/ report_except(h)

ReportSpec == Init /\ [][ReportNext]_vars

\* ======================================================================
\* Properties
\* ======================================================================
\* the transactions of request r
items(r) == DOMAIN req[r].transactions

\* the distinct ledger rows request r wrote for its i-th transaction
rows(r, i) ==
    { row \in BagToSet(transactions_table) : row.req = r /\ row.i = i }

\* how many ledger rows request r wrote for its i-th transaction
RECURSIVE copies(_, _)
copies(table, entries) ==
    IF entries = {} THEN 0
    ELSE LET e == CHOOSE x \in entries : TRUE
         IN  CopiesIn(e, table) + copies(table, entries \ { e })

row_count(r, i) == copies(transactions_table, rows(r, i))

\* the distinct report posts request r made for its i-th transaction
reports(r, i) ==
    { post \in BagToSet(fraud_reports) : post.req = r /\ post.i = i }

\* the verdict request r computed for its i-th transaction, once scored
verdict(r, i) ==
    IF i <= Len(req[r].results) THEN req[r].results[i] ELSE req[r].result

\* the verdict the handler of r hands back for its current transaction:
\* `result` of detect (line 144), the entry of `results` in batch_detect
returned(r) ==
    IF req[r].endpoint = "detect" THEN req[r].result ELSE req[r].results[req[r].i]

\* a scoring call has been answered for the current transaction of r
scored(r) == req[r].ml_response # no_ml_response

\* the scoring call failed: the post raised, the status is not a success, or
\* the body holds no list of predictions
ScoringFailed(response) ==
    \/ response.error # "none"
    \/ response.status # 200
    \/ ~response.is_json
    \/ response.prediction.type # "list"
    \/ response.prediction.items = << >>

\* ---------------------------------------------------------------------
\* C1: in batch_detect, when one item fails fatally every other item still
\* runs its pipeline to Done, and the batch returns one outcome per
\* submitted item.
C1_BatchItemsIsolated ==
    \A r \in Reqs :
       (req[r].endpoint = "batchdetect" /\ req[r].pc = "done") =>
          /\ \A i \in items(r) : req[r].state[i] \in { "Done", "Failed" }
          /\ Len(req[r].response.transactions) = Len(req[r].transactions)

\* C2: when a request has ended, each of its transactions has either exactly
\* one ledger row written in this attempt, or a failure reported to the
\* caller for it; never both, never neither.
C2_VerdictOrFailure ==
    \A r \in Reqs :
       req[r].pc = "done" =>
          \A i \in items(r) :
             (row_count(r, i) = 1)
                # (req[r].response.status = 500 /\ req[r].state[i] = "Failed")

\* C3: when the rule store cannot be reached during the rule fetch, the item
\* fails: no scoring call, no ledger row and no report for it, and the caller
\* gets an error, not a verdict.
C3_StoreUnavailableFails ==
    \A r \in Reqs :
       /\ req[r].rules_fetch = "StoreUnavailable" =>
             /\ req[r].pc = "raised"
             /\ req[r].state[req[r].i] = "Failed"
             /\ req[r].failed_at = "fetch_rules"
       /\ (req[r].failed_at = "fetch_rules" /\ req[r].pc = "done") =>
             req[r].response.status = 500
       /\ req[r].failed_at = "fetch_rules" =>
          /\ [ req |-> r, i |-> req[r].i ] \notin ml_calls
          /\ rows(r, req[r].i) = {}
          /\ reports(r, req[r].i) = {}

C3_Witness ==
    \E r \in Reqs : req[r].rules_fetch = "StoreUnavailable" /\ req[r].i = 2

AnsweredSuccessfully(response) ==
    /\ response.error = "none" /\ response.status = 200 /\ response.is_json
    /\ \/ response.is_fraud \in { 0, 1 }
       \/ response.prediction.type = "list" /\ response.prediction.items # << >>

\* C5: is_fraud_predicted is None exactly when the scoring collaborator
\* failed; whenever it (ml_predict) answers the request successfully,
\* is_fraud_predicted is 0 or 1, never None.
C5_NullOnlyOnFailure ==
    \A r \in Reqs :
       scored(r) =>
          /\ req[r].result.is_fraud_predicted = NoneNum
                <=> ~AnsweredSuccessfully(req[r].ml_response)
          /\ AnsweredSuccessfully(req[r].ml_response)
                => req[r].result.is_fraud_predicted \in { 0, 1 }

C7_ReportOnlyWhenPositive ==
    \A post \in BagToSet(fraud_reports) :
       req[post.req].pc # "done" =>
          LET v == verdict(post.req, post.i)
          IN  v.is_fraud_rule = TRUE \/ v.is_fraud_predicted = 1

C7_Witness ==
    \E post \in BagToSet(fraud_reports) :
       /\ req[post.req].pc # "done"
       /\ LET v == verdict(post.req, post.i)
          IN  ~v.is_fraud_rule /\ v.is_fraud_predicted = 1

\* the ledger holds a row with a positive verdict for transaction i of r
PersistedPositive(r, i) ==
    \E row \in rows(r, i) : row.is_fraud_rule = TRUE \/ row.is_fraud_predict = 1

C9_ReportAfterPersist ==
    \A post \in BagToSet(fraud_reports) : rows(post.req, post.i) # {}

\* what the verdict of the current transaction of r has to be, given the
\* rules in the store and the answer of the scoring service
expected(r) ==
    with_prediction(check_transaction(current(req[r]), fetch_rules(fraud_rules)),
                    get_ml_prediction(req[r].ml_response))

\* C10: a failing report post (unreachable, error status, not acknowledged)
\* does not change the outcome: it fails no item, and the item that ends Done
\* hands back the verdict and has the ledger row that the rules and the
\* scoring answer determine.
C10_ReportFailureHarmless ==
    \A r \in Reqs :
       req[r].report_outcome \in { "not_acknowledged", "error_status", "unreachable" } =>
          /\ req[r].state[req[r].i] = "Failed" => req[r].failed_at = "upload_transaction"
          /\ req[r].endpoint = "batchdetect" => req[r].state[req[r].i] = "Done"
          /\ req[r].state[req[r].i] = "Done" =>
                /\ returned(r).is_fraud_rule = expected(r).is_fraud_rule
                /\ returned(r).is_fraud_predicted = expected(r).is_fraud_predicted
                /\ returned(r).transaction_id = current(req[r]).transaction_id
                /\ \A row \in rows(r, req[r].i) :
                      row = ledger_row(r, req[r].i, current(req[r]),
                                       expected(r).is_fraud_rule,
                                       expected(r).is_fraud_predicted)
                /\ row_count(r, req[r].i) = 1

C10_Witness ==
    \E r \in Reqs :
       /\ req[r].report_outcome = "unreachable"
       /\ req[r].state[req[r].i] = "Done"
       /\ req[r].pc = "return"

\* C11: when upload_transaction fails after the verdict was merged, the item
\* is Failed, no row is committed and the caller gets an error without the
\* verdict; a caller that got a successful response has a committed ledger row
\* for every verdict in it.
C11_LedgerFailureSurfaced ==
    \A r \in Reqs :
       /\ req[r].failed_at = "upload_transaction" =>
             /\ req[r].state[req[r].i] = "Failed"
             /\ rows(r, req[r].i) = {}
             /\ req[r].pc \in { "raised", "done" }
             /\ req[r].pc = "done" =>
                   req[r].response = [ no_response EXCEPT !.status = 500 ]
       /\ (req[r].pc = "done" /\ req[r].response.status = 200) =>
             IF req[r].endpoint = "detect"
             THEN row_count(r, 1) = 1
             ELSE \A i \in DOMAIN req[r].response.transactions : row_count(r, i) = 1

C11_Witness ==
    \E r \in Reqs :
       /\ req[r].failed_at = "upload_transaction"
       /\ req[r].pc = "done"
       /\ req[r].response.status = 500
       /\ [ req |-> r, i |-> req[r].i ] \in ml_calls

\* transaction i of request r has got through its upload_transaction call
uploaded(r, i) ==
    \/ req[r].state[i] = "Done"
    \/ req[r].endpoint = "batchdetect" /\ req[r].i = i /\ req[r].pc = "report"

\* C12: every attempt that got through upload_transaction has exactly one
\* ledger row of its own, every other attempt has none, whatever the ledger
\* held before: a transaction_id that is already stored is stored again.
C12_OneRowPerAttempt ==
    /\ \A r \in Reqs : \A i \in items(r) :
          row_count(r, i) = IF uploaded(r, i) THEN 1 ELSE 0
    /\ BagCardinality(transactions_table) =
          Cardinality({ ri \in Reqs \X (1..MaxTransactions) :
                          ri[2] \in items(ri[1]) /\ uploaded(ri[1], ri[2]) })

C12_Witness ==
    \E row1, row2 \in BagToSet(transactions_table) :
       /\ row1 # row2
       /\ row1.transaction_id_anonymous = row2.transaction_id_anonymous
       /\ uploaded(row1.req, row1.i) /\ uploaded(row2.req, row2.i)

\* C13: batch_detect answers with as many outcomes as transactions were
\* submitted, the i-th with the transaction_id and the verdict of the i-th
\* submitted transaction.
C13_BatchOrderPreserved ==
    \A r \in Reqs :
       (req[r].endpoint = "batchdetect" /\ req[r].pc = "done") =>
          /\ Len(req[r].response.transactions) = Len(req[r].transactions)
          /\ \A i \in DOMAIN req[r].response.transactions :
                /\ req[r].response.transactions[i].transaction_id
                      = req[r].transactions[i].transaction_id
                /\ \A row \in rows(r, i) :
                      /\ row.is_fraud_rule = req[r].response.transactions[i].is_fraud_rule
                      /\ row.is_fraud_predict
                            = req[r].response.transactions[i].is_fraud_predicted

\* C14: a request that has come to its scoring call gets past it: the call
\* resolves, and the request ends (Done or Failed).
C14_ScoringBounded ==
    \A r \in Reqs : (req[r].pc = "score") ~> (req[r].pc = "done")

\* C21: the ledger row of a transaction holds every attribute the caller
\* supplied with the value supplied (in the column of that name, or of that
\* name with _anonymous), together with is_fraud_rule and is_fraud_predict.
C21_RowHoldsFullTransaction ==
    \A row \in BagToSet(transactions_table) :
       LET transaction == req[row.req].transactions[row.i] IN
       /\ \A attribute \in DOMAIN transaction :
             \/ /\ attribute \in DOMAIN row
                /\ row[attribute] = transaction[attribute]
             \/ /\ (attribute \o "_anonymous") \in DOMAIN row
                /\ row[attribute \o "_anonymous"] = transaction[attribute]
       /\ row.is_fraud_rule \in BOOLEAN
       /\ row.is_fraud_predict \in { NoneNum, 0, 1 }

\* the rule verdict of transaction i of request r
rule_verdict(r, i) ==
    check_transaction(req[r].transactions[i], fetch_rules(fraud_rules))

\* what the caller of r finds for transaction i in a 200 response: the
\* is_fraud_rule and the JSON value under "fraud_reasons"
received_is_fraud_rule(r, i) ==
    IF req[r].endpoint = "detect"
    THEN req[r].response.result.is_fraud_rule
    ELSE req[r].response.transactions[i].is_fraud_rule

received_reasons(r, i) ==
    IF req[r].endpoint = "detect"
    THEN JsonList(req[r].response.result.fraud_reasons)
    ELSE JsonString(req[r].response.transactions[i].fraud_reasons)

\* the request ended with a 200 response
Answered(r) == req[r].pc = "done" /\ req[r].response.status = 200

C23_LedgerAppendOnly ==
    [][ \A row \in BagToSet(transactions_table) :
           CopiesIn(row, transactions_table') >= CopiesIn(row, transactions_table) ]_vars

C23_Witness ==
    \E r \in Reqs :
       /\ req[r].pc = "done" /\ req[r].response.status = 500
       /\ Len(req[r].transactions) = 2
       /\ req[r].state[2] = "Failed"
       /\ row_count(r, 1) = 1
       /\ \E row1 \in rows(r, 1) :
             row1.transaction_id_anonymous = req[r].transactions[2].transaction_id

\* C26: the verdict the caller sees is the verdict stored: is_fraud_rule and
\* is_fraud_predicted of every outcome handed back equal is_fraud_rule and
\* is_fraud_predict of the ledger row written for it in the same attempt.
C26_ResponseMatchesLedger ==
    \A r \in Reqs :
       /\ Answered(r) =>
             \A i \in items(r) :
                /\ rows(r, i) # {}
                /\ \A row \in rows(r, i) :
                      /\ row.is_fraud_rule = received_is_fraud_rule(r, i)
                      /\ row.is_fraud_predict =
                            IF req[r].endpoint = "detect"
                            THEN req[r].response.result.is_fraud_predicted
                            ELSE req[r].response.transactions[i].is_fraud_predicted
       /\ \A i \in DOMAIN req[r].results :
             /\ rows(r, i) # {}
             /\ \A row \in rows(r, i) :
                   /\ row.is_fraud_rule = req[r].results[i].is_fraud_rule
                   /\ row.is_fraud_predict = req[r].results[i].is_fraud_predicted

C26_Witness ==
    \E r \in Reqs :
       /\ Answered(r) /\ req[r].endpoint = "detect"
       /\ req[r].response.result.is_fraud_rule
       /\ req[r].response.result.is_fraud_predicted = NoneNum
       /\ \E row \in rows(r, 1) : row.is_fraud_predict = NoneNum /\ row.is_fraud_rule

\* ---------------------------------------------------------------------
\* Rule evaluation (RuleSpec)

Range(seq) == { seq[k] : k \in DOMAIN seq }

\* the calls of check_transaction that have returned
Returned == { c \in Calls : evaluation[c].pc = "returned" }

\* the text of the reason of a rule, by its type
ThresholdReason(threshold) ==
    "High transaction amount (> " \o ToString(threshold) \o ")"

BlockedReason(rule) ==
    CASE rule.rule_type = "Blocked IP" -> "Blocked IP: " \o rule.blocked_ip
      [] rule.rule_type = "Blocked Payment Gateway" ->
            "Blocked Payment Gateway: " \o rule.blocked_payment_gateway
      [] rule.rule_type = "Blocked Browser" ->
            "Blocked Browser: " \o rule.blocked_payer_browser
      [] rule.rule_type = "Blocked Email" -> "Blocked Email: " \o rule.blocked_email

IsThreshold(rule) == rule.rule_type = "Threshold Value"

IsBlocked(rule) ==
    rule.rule_type \in { "Blocked IP", "Blocked Payment Gateway", "Blocked Browser",
                         "Blocked Email" }

\* the blocked value of a blocked-value rule, and the transaction field it is
\* compared with
BlockedValue(rule) ==
    CASE rule.rule_type = "Blocked IP" -> rule.blocked_ip
      [] rule.rule_type = "Blocked Payment Gateway" -> rule.blocked_payment_gateway
      [] rule.rule_type = "Blocked Browser" -> rule.blocked_payer_browser
      [] rule.rule_type = "Blocked Email" -> rule.blocked_email

BlockedField(rule, transaction) ==
    CASE rule.rule_type = "Blocked IP" -> transaction.payer_ip
      [] rule.rule_type = "Blocked Payment Gateway" -> transaction.payment_gateway_bank
      [] rule.rule_type = "Blocked Browser" -> transaction.payer_browser
      [] rule.rule_type = "Blocked Email" -> transaction.payer_email

\* when a rule is to trigger for a transaction
Triggers(rule, transaction) ==
    IF IsThreshold(rule)
    THEN transaction.transaction_amount > rule.threshold
    ELSE /\ BlockedValue(rule) \notin { None, "" }
         /\ BlockedField(rule, transaction) = BlockedValue(rule)

Reason(rule) ==
    IF IsThreshold(rule) THEN ThresholdReason(rule.threshold) ELSE BlockedReason(rule)

\* C15: an active "Threshold Value" rule with threshold T triggers iff
\* transaction_amount > T (not for transaction_amount = T), and its reason
\* is the text with T in it.
C15_ThresholdStrict ==
    \A c \in Returned :
       LET e == evaluation[c] IN
       \A rule \in Range(e.rules) :
          IsThreshold(rule) =>
             /\ ThresholdReason(rule.threshold) \in Range(e.result.fraud_reasons)
                   <=> e.transaction.transaction_amount > rule.threshold
             /\ e.transaction.transaction_amount > rule.threshold
                   => e.result.is_fraud_rule
             /\ ((\A other \in Range(e.rules) : IsThreshold(other))
                    /\ e.transaction.transaction_amount <= rule.threshold)
                   => ~e.result.is_fraud_rule

C15_Witness ==
    \E c1, c2 \in Returned : \E rule \in Range(evaluation[c1].rules) :
       /\ IsThreshold(rule)
       /\ evaluation[c1].transaction.transaction_amount = rule.threshold
       /\ ~evaluation[c1].result.is_fraud_rule
       /\ evaluation[c2].transaction.transaction_amount = rule.threshold + 1
       /\ evaluation[c2].result.fraud_reasons = << "High transaction amount (> 5)" >>

\* C16: an active blocked-value rule triggers iff its blocked value is not
\* empty and is exactly the transaction's field; an empty or absent blocked
\* value never gives a reason, an absent field of the transaction neither.
C16_BlockedExact ==
    \A c \in Returned :
       LET e == evaluation[c]
           blocked == { rule \in Range(e.rules) : IsBlocked(rule) }
           thresholds == { rule \in Range(e.rules) : IsThreshold(rule) }
       IN  /\ \A rule \in blocked :
                 Triggers(rule, e.transaction)
                    => BlockedReason(rule) \in Range(e.result.fraud_reasons)
           /\ \A reason \in Range(e.result.fraud_reasons) :
                 \/ \E rule \in thresholds : reason = ThresholdReason(rule.threshold)
                 \/ \E rule \in blocked :
                       /\ reason = BlockedReason(rule)
                       /\ Triggers(rule, e.transaction)
           /\ (thresholds = {} /\ \A rule \in blocked : ~Triggers(rule, e.transaction))
                 => ~e.result.is_fraud_rule

C16_Witness ==
    \E c1, c2 \in Returned :
       /\ evaluation[c1].transaction.payer_ip = ""
       /\ evaluation[c1].transaction.payer_email = "A@b.com"
       /\ \E rule \in Range(evaluation[c1].rules) : rule.blocked_ip = ""
       /\ \E rule \in Range(evaluation[c1].rules) : rule.blocked_email = "a@b.com"
       /\ evaluation[c1].result.fraud_reasons = << >>
       /\ evaluation[c2].transaction.payer_email = "a@b.com"
       /\ evaluation[c2].result.fraud_reasons = << "Blocked Email: a@b.com" >>

\* C17: is_fraud is true iff at least one rule triggered, iff fraud_reasons
\* is not empty; with no active rule the result is is_fraud_rule = False and
\* fraud_reasons = [].
C17_FraudIffReasons ==
    \A c \in Calls :
       LET e == evaluation[c] IN
       /\ e.locals.is_fraud <=> e.locals.fraud_reasons # << >>
       /\ c \in Returned =>
             /\ e.result.is_fraud_rule <=> e.result.fraud_reasons # << >>
             /\ e.result.is_fraud_rule
                   <=> \E rule \in Range(e.rules) : Triggers(rule, e.transaction)
             /\ fetch_rules(fraud_rules) = << >> =>
                   /\ e.result.is_fraud_rule = FALSE
                   /\ e.result.fraud_reasons = << >>

C17_Witness ==
    \E c1, c2 \in Returned :
       /\ evaluation[c1].result.is_fraud_rule
       /\ Len(evaluation[c1].result.fraud_reasons) = 2
       /\ ~evaluation[c2].result.is_fraud_rule
       /\ evaluation[c2].result.fraud_reasons = << >>

\* the orders the rows of a rule list can be in
Orderings(rules) ==
    { [ k \in DOMAIN rules |-> rules[order[k]] ] :
        order \in { f \in [ DOMAIN rules -> DOMAIN rules ] :
                       \A j, k \in DOMAIN rules : f[j] = f[k] => j = k } }

\* how often each element occurs in a sequence
SeqToBag(seq) ==
    [ x \in Range(seq) |-> Cardinality({ k \in DOMAIN seq : seq[k] = x }) ]

\* C18: evaluating the same active rules in any other order gives the same
\* is_fraud and the same reasons up to their order.
C18_OrderIndependent ==
    \A c \in Returned :
       LET e == evaluation[c] IN
       \A reordered \in Orderings(e.rules) :
          LET other == check_transaction(e.transaction, reordered) IN
          /\ other.is_fraud_rule = e.result.is_fraud_rule
          /\ SeqToBag(other.fraud_reasons) = SeqToBag(e.result.fraud_reasons)

C18_Witness ==
    \E c \in Returned :
       /\ Len(evaluation[c].result.fraud_reasons) = 2
       /\ evaluation[c].result.fraud_reasons[1] # evaluation[c].result.fraud_reasons[2]
       /\ \E reordered \in Orderings(evaluation[c].rules) :
             check_transaction(evaluation[c].transaction, reordered).fraud_reasons
                # evaluation[c].result.fraud_reasons

\* the reasons of the first k rules, one per triggering rule, in rule order
RECURSIVE ReasonsUpTo(_, _, _)
ReasonsUpTo(rules, transaction, k) ==
    IF k = 0 THEN << >>
    ELSE ReasonsUpTo(rules, transaction, k - 1)
            \o (IF Triggers(rules[k], transaction) THEN << Reason(rules[k]) >> ELSE << >>)

\* C19: every active rule is gone through, also after one has triggered;
\* fraud_reasons has one entry per triggering rule in the order of the rules,
\* and identical triggering rules give identical entries.
C19_NoShortCircuitNoDedup ==
    \A c \in Calls :
       LET e == evaluation[c] IN
       /\ e.locals.fraud_reasons = ReasonsUpTo(e.rules, e.transaction, e.k)
       /\ c \in Returned =>
             /\ e.k = Len(e.rules)
             /\ e.result.fraud_reasons = ReasonsUpTo(e.rules, e.transaction, Len(e.rules))

C19_Witness ==
    \E c \in Returned :
       /\ Len(evaluation[c].rules) = 2
       /\ [ evaluation[c].rules[1] EXCEPT !.id = 0 ] = [ evaluation[c].rules[2] EXCEPT !.id = 0 ]
       /\ Len(evaluation[c].result.fraud_reasons) = 2
       /\ evaluation[c].result.fraud_reasons[1] = evaluation[c].result.fraud_reasons[2]

\* C20: two calls of check_transaction with the same transaction and the
\* same active rules return the same result, reasons in the same order,
\* whatever ran before or runs meanwhile: the result is a function of the
\* transaction and the rules alone.
C20_Deterministic ==
    /\ \A c1, c2 \in Returned :
          (/\ evaluation[c1].transaction = evaluation[c2].transaction
           /\ evaluation[c1].rules = evaluation[c2].rules)
             => evaluation[c1].result = evaluation[c2].result
    /\ \A c \in Returned :
          evaluation[c].result
             = check_transaction(evaluation[c].transaction, evaluation[c].rules)

C20_Witness ==
    \E c1, c2 \in Returned :
       /\ c1 # c2
       /\ evaluation[c1].transaction = evaluation[c2].transaction
       /\ Len(evaluation[c1].result.fraud_reasons) = 2
       /\ evaluation[c1].result.fraud_reasons[1] # evaluation[c1].result.fraud_reasons[2]
       /\ evaluation[c1].result = evaluation[c2].result

C29_FormReachesRuleEngine ==
    \A c \in Returned :
       LET e == evaluation[c] IN
       /\ e.transaction.payer_ip = e.form.payer_ip
       /\ \A rule \in Range(e.rules) :
             (/\ rule.rule_type = "Blocked IP"
              /\ rule.blocked_ip # ""
              /\ rule.blocked_ip = e.form.payer_ip)
                => /\ e.result.is_fraud_rule
                   /\ ("Blocked IP: " \o rule.blocked_ip) \in Range(e.result.fraud_reasons)

\* ------------------------------------------------------ Fraud Analysis API (ApiSpec)
\* the rows of the history file
history_rows == { history_file.rows[i] : i \in 1..Len(history_file.rows) }

\* the rows the dashboard holds in st.session_state.data
dashboard_rows == { dashboard.data[i] : i \in 1..Len(dashboard.data) }

\* the tasks of accepted transactions
Accepted == { t \in Tasks : task[t].pc # "idle" }

\* C27: in the Fraud Analysis API every accepted transaction ends up in the
\* history file: once all background tasks have finished, the history holds
\* one row per accepted transaction, also when tasks ran concurrently.
C27_HistoryHoldsEveryAccepted ==
    (\A t \in Tasks : task[t].pc \in { "idle", "done" })
        => /\ \A t \in Accepted : transaction_df(t) \in history_rows
           /\ Len(history_file.rows) = Cardinality(Accepted)

committed(h) == \E row \in BagToSet(fraud_reporting) : row.call = h

\* C30: report_fraud never raises: it answers reporting_acknowledged = true
\* with failure_code = 0 iff the fraud_reporting row was committed, and
\* reporting_acknowledged = false with failure_code = 1 otherwise, in which
\* case no row was added; send_fraud_report treats both answers alike.
C30_AnswerTellsCommit ==
    /\ \A h \in ReportCalls :
           report_call[h].pc = "answered"
               => LET response == report_call[h].response
                  IN  /\ (response.reporting_acknowledged /\ response.failure_code = 0)
                              <=> committed(h)
                      /\ ~ response.reporting_acknowledged
                              => response.failure_code = 1 /\ ~ committed(h)
    /\ [ send_fraud_report(idle_request, "acknowledged") EXCEPT !.report_outcome = no_call ]
           = [ send_fraud_report(idle_request, "not_acknowledged")
                   EXCEPT !.report_outcome = no_call ]

\* ------------------------------------------------------ concurrent requests (ConcSpec)
\* request r is in flight: posted, its handler at a transaction and not yet over
in_flight(r) ==
    /\ req[r].pc \notin { "idle", "done" }
    /\ req[r].i \in 1..Len(req[r].transactions)

\* C24: concurrently processed requests do not interfere: under any
\* interleaving of detect / batch_detect requests, the verdict, the ledger
\* row and the report of each transaction are the ones its own transaction,
\* the fetched rules and its own scoring answer determine.
C24_NoInterference ==
    \A r \in ConcReqs :
       in_flight(r) =>
          LET i == req[r].i
              e == expected(r)
          IN  /\ scored(r) => req[r].result = e
              /\ \A row \in rows(r, i) :
                     row = ledger_row(r, i, current(req[r]),
                                      e.is_fraud_rule, e.is_fraud_predicted)
              /\ \A post \in reports(r, i) :
                     /\ post = report_data(r, i, current(req[r]).transaction_id,
                                           Join(e.fraud_reasons))
                     /\ is_positive(e)
              /\ req[r].state[i] = "Done" =>
                     /\ row_count(r, i) = 1
                     /\ returned(r).transaction_id = current(req[r]).transaction_id
                     /\ returned(r).is_fraud_rule = e.is_fraud_rule
                     /\ returned(r).is_fraud_predicted = e.is_fraud_predicted

\* two requests in flight at once, with different transactions and different
\* scoring answers, one of them Done with its row and its report
C24_Witness ==
    \E r1, r2 \in ConcReqs :
       /\ r1 # r2 /\ in_flight(r1) /\ in_flight(r2)
       /\ current(req[r1]) # current(req[r2])
       /\ scored(r1) /\ scored(r2)
       /\ req[r1].result.is_fraud_predicted # req[r2].result.is_fraud_predicted
       /\ req[r1].state[req[r1].i] = "Done"
       /\ rows(r1, req[r1].i) # {} /\ reports(r1, req[r1].i) # {}
       /\ req[r2].state[req[r2].i] # "Done"

====
